---- MODULE Spec2Model ----
(***************************************************************************)
(* Session registry, open sequence, MTU negotiation and exchange           *)
(* serialisation of packages/hw-transport-node-ble/src/TransportNodeBLE.js *)
(*                                                                         *)
(* The module-level function open(), the transportsCache map and the       *)
(* BluetoothTransport methods inferMTU, exchange, write and close are      *)
(* translated from that file.  The link stack (noble peripheral: connect,  *)
(* discoverServices, disconnect, the "disconnect" event) is the            *)
(* environment.  Transport.exchangeAtomicImpl, monitorCharacteristic,      *)
(* sendAPDU and receiveAPDU are imported by the file but their code is not *)
(* part of it; they are modelled from the specification text.              *)
(***************************************************************************)
EXTENDS Integers, Sequences, FiniteSets

\* ------------------------------------------------------------------ bounds
\* Number of open(descriptor) calls made over a behaviour.
MaxOpens == 1
\* Number of exchange(apdu) calls made over a behaviour.
MaxCalls == 2
\* Number of disconnect callbacks waiting on a device for its disconnect
\* event: disconnect(id) is not called beyond it.
MaxCallbacks == 2
\* Number of frames a user hands to transport.write directly.
MaxUserWrites == 1

\* ------------------------------------------------------- program constants
\* mtuSize: number = 20
DefaultMtuSize == 20
\* let mtu = 23 (inferMTU)
InitialMtu == 23
\* if (afterMTUTime - beforeMTUTime < 500)
ReconnectThreshold == 500
\* caller tag of the negotiation in a Session's lock queue; exchange calls
\* are tagged 1..MaxCalls
MtuCaller == 0
\* caller tag of an inferMTU() call made by the user on an open Session
UserMtuCaller == MaxCalls + 1
\* tag of the frames a user hands to transport.write directly
UserWriteCaller == MaxCalls + 2
\* entry of a device's "disconnect" listener list that stands for the
\* callback (error) => throw new Error(error) handed to device.disconnect;
\* the other entries are the Sessions whose onDisconnect is installed
CallbackEntry == 0

\* ------------------------------------------------------------ input sets
Devices == {"D1"}
\* every attempt of open(descriptor) constructs one BluetoothTransport and
\* one call makes at most two attempts
Sessions == 1..(2 * MaxOpens)
Opens == 1..MaxOpens
Min(S) == CHOOSE x \in S : \A y \in S : x <= y
Calls == 1..MaxCalls
\* packet sizes announced by the peer in byte 5 of the 0x08 frame
AnnouncedSizes == {0, 158}
\* the size announced where the budget plays no part
OneAnnouncedSize == {158}
\* a size that leaves the default budget in place: every apdu of ApduLens
\* takes several frames
SmallAnnouncedSize == {0}
\* every value of buffer.readUInt8(5)
Bytes == 0..255
\* measured afterMTUTime - beforeMTUTime, in ms
RoundTrips == {200, 499, 500, 501, 700}
SessRoundTrips == {200, 700}
\* the open call followed by SpecSess
FirstOpen == Min(Opens)
\* apdu lengths handed to exchange
ApduLens == {40}
\* peripheral.uuid of the peripherals seen while scanning
ScanIds == {"D1", "D2"}
\* peripheral.advertisement.localName ("missing": undefined)
LocalNames == {"missing", "", "unknown", "Nano X"}
\* The objects the file works with but does not define.  Each attribute is
\* fixed the first time the program depends on it.
\* the identifier deviceModel of new BluetoothTransport(..., deviceModel):
\* the file neither declares nor imports it, so it is a global of the
\* host or a ReferenceError
DeviceModelEnvs == {"bound", "unbound"}
\* writeCharacteristic.once("write", false, cb): a characteristic that
\* takes the three arguments, or an EventEmitter, whose once throws on a
\* listener that is not a function
OnceEnvs == {"accepts", "throws"}
\* this.device.gatt: open() works with a noble peripheral, which has no
\* gatt member; a web-bluetooth style device has one
GattEnvs == {"present", "absent"}
\* when the peripheral calls the callback handed to disconnect(cb): never,
\* from its "disconnect" event (a once-listener, as noble does), or at once
CallbackEnvs == {"never", "event", "sync"}
\* the environments of the specifications that follow one peripheral kind
NobleCallback == {"event"}
AcceptingOnce == {"accepts"}
BoundDeviceModel == {"bound"}
\* packet sizes announced to an inferMTU() call made by the user
UserAnnouncedSizes == {0, 20, 21, 60}
\* a round trip below the threshold of the reconnect workaround
FastRoundTrips == {200}

VARIABLES
  transportsCache,     \* device id -> registered Session (0: no entry)
  devState,            \* device.state of the noble peripheral
  listeners,           \* per device: its "disconnect" listeners in the order installed
  connectCalls,        \* device.connect invocations
  discoverCalls,       \* device.discoverServices invocations
  sessDisconnects,     \* link disconnect invocations made by each Session
  nextSession,         \* next BluetoothTransport to be constructed
  sid,                 \* transport.id ("none": not constructed)
  notYetDisconnected,  \* transport.notYetDisconnected
  mtuSize,             \* transport.mtuSize
  peerAnnounced,       \* <<A>> once the peer's 0x08 frame announcing A was read
  busy,                \* exchange lock: callers holding or waiting, in order
  notifyErr,           \* error state of the Session's notification stream
  writeLog,            \* frames handed to writeCharacteristic.write, in order
  registered,          \* the Session has been put in transportsCache (open(id) could return it)
  teardowns,           \* number of times the Session's onDisconnect has run
  arrivals,            \* callers in the order they asked for the lock
  started,             \* callers in the order their body started
  opc,                 \* position of each open(descriptor) call
  odev,                \* its device
  oneeds,              \* its needsReconnect
  otransport,          \* its transport
  oerr,                \* the exception it carries through finally
  oruns,               \* number of times the open sequence was entered
  ofirst,              \* first attempt's negotiation: round trip and outcome
  cstate,              \* position of each exchange call
  csess,               \* its Session
  clen,                \* its apdu length
  csent,               \* frames it has written
  cerr,                \* the error it failed with
  cdisc,               \* a disconnect event was delivered while it was running
  cmtu,                \* the mtuSize its body handed to sendAPDU
  clstate,             \* position of the close() call
  clsess,              \* the Session it was called on
  clinflight,          \* <<caller>> running on that Session when close was called
  devHist,             \* per device: last of open success / disconnect event
  lastOp,              \* the operation performed by the last step
  acked,               \* writes of the Session the link stack has acknowledged
  lsub,                \* position of the listen subscription
  discoveredDevices,   \* listen: discoveredDevices (peripheral uuids)
  adds,                \* listen: "add" events given to the observer, per uuid
  addNames,            \* listen: advertised names of the peripherals added
  fragPc,              \* position of the fragmentation round trip
  fragB,               \* its packet budget
  fragMsg,             \* the logical message handed to sendAPDU
  fragFrames,          \* the frames sendAPDU produced, in write order
  fragOut,             \* the message receiveAPDU reassembled from them
  env,                 \* attributes of the host and of the peripheral objects
  ist,                 \* position of the user's inferMTU() call
  isess,               \* the Session it was called on
  ierr,                \* the error it carries
  uwrites              \* number of frames handed to transport.write directly

linkVars == <<devState, listeners, connectCalls, discoverCalls, sessDisconnects>>
sessVars == <<nextSession, sid, notYetDisconnected, mtuSize, peerAnnounced, notifyErr,
             teardowns>>
lockVars == <<busy, arrivals, started>>
openVars == <<opc, odev, oneeds, otransport, oerr, oruns, ofirst>>
callVars == <<cstate, csess, clen, csent, cerr, cdisc, cmtu>>
closeVars == <<clstate, clsess, clinflight>>
listenVars == <<lsub, discoveredDevices, adds, addNames>>
fragVars == <<fragPc, fragB, fragMsg, fragFrames, fragOut>>
userVars == <<ist, isess, ierr, uwrites>>
restVars == <<acked, listenVars, fragVars, userVars>>
extVars == <<env, restVars>>
vars == <<transportsCache, linkVars, sessVars, lockVars, writeLog, registered,
          openVars, callVars, closeVars, devHist, lastOp, extVars>>

\* ------------------------------------------------------------- helpers
Range(q) == {q[i] : i \in 1..Len(q)}

OtherOp == [op |-> "other", dev |-> "none", sess |-> 0, err |-> "none"]

\* The exchange lock (Transport.exchangeAtomicImpl), as the specification
\* describes it: callers are queued and run one after another in arrival
\* order; the head of the queue is the caller whose body may run.
LockAcquire(q, caller) == Append(q, caller)

LockHolds(q, caller) == q # <<>> /\ Head(q) = caller

LockRelease(q, caller) == SelectSeq(q, LAMBDA x : x # caller)

\* Fragmentation (sendAPDU), as the specification describes it: frame 0
\* carries min(B_payload, L) bytes, every later frame up to B_payload bytes.
PayloadSize(B) == B - 3

NumFrames(L, B) ==
  IF L <= PayloadSize(B) THEN 1
  ELSE 1 + ((L - PayloadSize(B)) + PayloadSize(B) - 1) \div PayloadSize(B)

\* packet budgets a message is fragmented under, and the lengths and
\* contents of the messages
Budgets == 4..255
FragLens(B) == {0, 1, PayloadSize(B) - 1, PayloadSize(B), PayloadSize(B) + 1,
                3 * PayloadSize(B)}
Patterns == {1, 7}
MsgOf(L, k) == [i \in 1..L |-> (k * i) % 256]

\* variant: sending goes on until the offset has passed the total length
FragmentDone_Past(off, L, seq) == seq > 0 /\ off > L

\* sending stops when L bytes have been sent; frame 0 is always sent
FragmentDone(off, L, seq) == seq > 0 /\ off >= L

\* frames of msg from offset off on: data frame seq carries up to P bytes,
\* frame 0 also the total length
RECURSIVE FragmentFrom(_, _, _, _)
FragmentFrom(msg, P, seq, off) ==
  IF FragmentDone(off, Len(msg), seq) THEN <<>>
  ELSE LET last == IF off + P < Len(msg) THEN off + P ELSE Len(msg)
       IN <<[seq |-> seq,
             total |-> IF seq = 0 THEN <<Len(msg)>> ELSE <<>>,
             payload |-> SubSeq(msg, off + 1, last)]>>
            \o FragmentFrom(msg, P, seq + 1, off + P)

Fragment(msg, B) == FragmentFrom(msg, PayloadSize(B), 0, 0)

\* Reassembly (receiveAPDU), as the specification describes it: payloads
\* are accumulated in sequence order from frame 0; a frame that is not the
\* next expected one fails with ProtocolError; accumulation stops exactly
\* when the running total equals the total length declared in frame 0.
RECURSIVE ReassembleFrom(_, _, _, _)
ReassembleFrom(frames, i, total, acc) ==
  IF i > Len(frames)
  THEN [status |-> "incomplete", data |-> acc, used |-> i - 1]
  ELSE IF frames[i].seq # i - 1
  THEN [status |-> "ProtocolError", data |-> <<>>, used |-> i]
  ELSE LET tot == IF i = 1 THEN frames[i].total[1] ELSE total
           acc2 == acc \o frames[i].payload
       IN IF Len(acc2) = tot
          THEN [status |-> "ok", data |-> acc2, used |-> i]
          ELSE ReassembleFrom(frames, i + 1, tot, acc2)

Reassemble(frames) == ReassembleFrom(frames, 1, 0, <<>>)


\* ------------------------------------------------ translated from the source
\* open(id): if (transportsCache[deviceOrId]) return it; else throw
\* new DisconnectedDevice()
OpenByIdResult(cache, d) ==
  IF cache[d] # 0 THEN [sess |-> cache[d], err |-> "none"]
  ELSE [sess |-> 0, err |-> "DisconnectedDevice"]

\* variant: the transport is not put in the cache
RegisterTransport_Skipped(cache, d, s) == cache

\* transportsCache[transport.id] = transport
RegisterTransport(cache, d, s) == [cache EXCEPT ![d] = s]

\* BluetoothTransport.disconnect: const transport = transportsCache[id]
DisconnectTarget(cache, id) == cache[id]

\* onDisconnect: delete transportsCache[transport.id]
OnDisconnectCache(cache, d) == [cache EXCEPT ![d] = 0]

\* variant: the handler leaves the flag set
OnDisconnectFlag_Kept(flag) == flag

\* onDisconnect: transport.notYetDisconnected = false
OnDisconnectFlag(flag) == FALSE

\* variant: the state of the device is not looked at
DeviceGone_Ignored(st) == FALSE

\* if (device.state === "disconnected") throw new DisconnectedDevice()
DeviceGone(st) == st = "disconnected"

\* onDisconnect: device.removeListener("disconnect", onDisconnect)
RemoveListener(L, s) == SelectSeq(L, LAMBDA x : x # s)

\* device.addListener("disconnect", onDisconnect): listeners run in the
\* order they were installed
AddListener(L, e) == Append(L, e)

\* device.disconnect((error) => throw new Error(error)): the callback
\* throws whenever it is called.  A peripheral that calls it at once makes
\* the disconnect call itself throw.
CallbackThrows(mode) == mode = "sync"

\* a peripheral that calls it from its "disconnect" event installs it as a
\* once-listener behind the listeners already there
CallbackInstalled(L, mode) ==
  IF mode = "event" THEN AddListener(L, CallbackEntry) ELSE L

\* emit("disconnect"): the listeners run in order; the first callback entry
\* throws, which ends the emit, so the listeners behind it do not run
FirstCallback(L) ==
  IF \E i \in 1..Len(L) : L[i] = CallbackEntry
  THEN CHOOSE i \in 1..Len(L) :
         /\ L[i] = CallbackEntry
         /\ \A j \in 1..(i - 1) : L[j] # CallbackEntry
  ELSE Len(L) + 1

\* the Sessions whose onDisconnect runs in the emit
HandlersRun(L) == {L[i] : i \in 1..(FirstCallback(L) - 1)}

\* the callbacks waiting in L for the disconnect event
PendingCallbacks(L) == Cardinality({i \in 1..Len(L) : L[i] = CallbackEntry})

\* the entries of L at the positions K, in order
SeqOfIdx(L, K) ==
  [j \in 1..Cardinality(K) |->
     L[CHOOSE i \in K : Cardinality({x \in K : x < i}) = j - 1]]

\* the listeners left after the emit: every onDisconnect that ran has
\* removed itself, the once-listener that threw is gone, the listeners
\* behind it stay
ListenersAfterEmit(L) ==
  SeqOfIdx(L, {i \in 1..Len(L) :
                 \/ i > FirstCallback(L)
                 \/ i < FirstCallback(L) /\ RemoveListener(<<L[i]>>, L[i]) # <<>>})

\* notifications of a Session whose link has dropped (monitorCharacteristic)
MonitorOnDisconnect(err) == IF err = "none" THEN "DeviceDisconnected" ELSE err

\* variant: the 3 header bytes are not added to the announced byte
NegotiatedMtuSize_NoHeader(cur, announced) ==
  IF announced > InitialMtu THEN announced - 3 ELSE cur

\* inferMTU: mtu = (announced byte) + 3; if (mtu > 23) this.mtuSize = mtu - 3
NegotiatedMtuSize(cur, announced) ==
  IF announced + 3 > InitialMtu THEN (announced + 3) - 3 ELSE cur

\* variant: a round trip of exactly 500 ms also clears needsReconnect
NeedsReconnectAfter_Inclusive(needs, elapsed) ==
  IF elapsed <= ReconnectThreshold THEN FALSE ELSE needs

\* finally: if (afterMTUTime - beforeMTUTime < 500) needsReconnect = false
NeedsReconnectAfter(needs, elapsed) ==
  IF elapsed < ReconnectThreshold THEN FALSE ELSE needs

\* variant: inferMTU runs its body without taking the lock
InferMTUAcquire_Unlocked(q, caller) == q

\* inferMTU runs its body through exchangeAtomicImpl
InferMTUAcquire(q, caller) == LockAcquire(q, caller)

\* variant: exchange runs its body at once, whoever holds the lock
ExchangeBodyGuard_Unlocked(q, c) == TRUE

\* exchange runs its body through exchangeAtomicImpl
ExchangeBodyGuard(q, c) == LockHolds(q, c)

\* write: writeCharacteristic.once("write", false, () => resolve()) runs
\* first; when it throws, writeCharacteristic.write(buffer, false) is not
\* reached and no frame is handed to the characteristic
WriteFrame(log, caller, idx, once) ==
  IF once = "throws" THEN log ELSE Append(log, <<caller, idx>>)

\* write: writeNoble() has a block body without return, so await
\* writeNoble() awaits undefined: the promise of write resolves whether or
\* not the write event of the characteristic has been emitted
WriteResolved(outstanding) == TRUE

\* listen: peripheral.advertisement.localName !== "unknown" &&
\* peripheral.advertisement.localName
NameAccepted(n) == n # "unknown" /\ n \notin {"missing", ""}

\* variant: the uuid is never found among the discovered devices
AlreadyDiscovered_Never(disc, p) == FALSE

\* listen: discoveredDevices[peripheral.uuid]
AlreadyDiscovered(disc, p) == p \in disc

\* listen: if (!unsubscribed) observer.next({type: "add", ...})
ObserverNotified(st) == st # "unsubscribed"

\* variant: close never awaits the busy promise
CloseAwaits_Never(q) == FALSE

\* close: if (this.exchangeBusyPromise) await this.exchangeBusyPromise
CloseAwaits(q) == q # <<>>

\* device.disconnect(cb) / device.gatt.disconnect() on the peripheral
LinkDisconnect(st) == IF st = "connected" THEN "disconnecting" ELSE st

\* A continuation of an inferMTU call whose body has just ended is still to
\* run (the assignment of this.mtuSize, then the caller).  It runs before
\* the program takes the next event of the link stack or of a timer.
Settling == (\E o \in Opens : opc[o] = "mturet") \/ ist = "ret"

\* ------------------------------------------------------------------- Init
Init ==
  /\ transportsCache = [d \in Devices |-> 0]
  /\ devState = [d \in Devices |-> "disconnected"]
  /\ listeners = [d \in Devices |-> <<>>]
  /\ connectCalls = [d \in Devices |-> 0]
  /\ discoverCalls = [d \in Devices |-> 0]
  /\ sessDisconnects = [s \in Sessions |-> 0]
  /\ nextSession = 1
  /\ sid = [s \in Sessions |-> "none"]
  /\ notYetDisconnected = [s \in Sessions |-> TRUE]
  /\ mtuSize = [s \in Sessions |-> DefaultMtuSize]
  /\ peerAnnounced = [s \in Sessions |-> <<>>]
  /\ busy = [s \in Sessions |-> <<>>]
  /\ notifyErr = [s \in Sessions |-> "none"]
  /\ writeLog = [s \in Sessions |-> <<>>]
  /\ registered = [s \in Sessions |-> FALSE]
  /\ teardowns = [s \in Sessions |-> 0]
  /\ arrivals = [s \in Sessions |-> <<>>]
  /\ started = [s \in Sessions |-> <<>>]
  /\ opc = [o \in Opens |-> "idle"]
  /\ odev = [o \in Opens |-> "none"]
  /\ oneeds = [o \in Opens |-> FALSE]
  /\ otransport = [o \in Opens |-> 0]
  /\ oerr = [o \in Opens |-> "none"]
  /\ oruns = [o \in Opens |-> 0]
  /\ ofirst = [o \in Opens |-> [rtt |-> 0, ok |-> FALSE]]
  /\ cstate = [c \in Calls |-> "idle"]
  /\ csess = [c \in Calls |-> 0]
  /\ clen = [c \in Calls |-> 0]
  /\ csent = [c \in Calls |-> 0]
  /\ cerr = [c \in Calls |-> "none"]
  /\ cdisc = [c \in Calls |-> FALSE]
  /\ cmtu = [c \in Calls |-> 0]
  /\ clstate = "idle"
  /\ clsess = 0
  /\ clinflight = <<>>
  /\ devHist = [d \in Devices |-> "none"]
  /\ lastOp = OtherOp
  /\ acked = [s \in Sessions |-> 0]
  /\ lsub = "idle"
  /\ discoveredDevices = {}
  /\ adds = [p \in ScanIds |-> 0]
  /\ addNames = {}
  /\ fragPc = "idle"
  /\ fragB = 0
  /\ fragMsg = <<>>
  /\ fragFrames = <<>>
  /\ fragOut = [status |-> "none", data |-> <<>>, used |-> 0]
  /\ env = [deviceModel |-> "unset", once |-> "unset", gatt |-> "unset",
            callback |-> "unset"]
  /\ ist = "idle"
  /\ isess = 0
  /\ ierr = "none"
  /\ uwrites = 0

\* ------------------------------------------------------- open(descriptor)
\* Entry of open(device, needsReconnect) up to its first await: connect when
\* device.state === "disconnected", otherwise straight to discoverServices.
EnterOpen(o, d) ==
  IF devState[d] = "disconnected"
  THEN /\ opc' = [opc EXCEPT ![o] = "connect"]
       /\ connectCalls' = [connectCalls EXCEPT ![d] = @ + 1]
       /\ UNCHANGED discoverCalls
  ELSE /\ opc' = [opc EXCEPT ![o] = "discover"]
       /\ discoverCalls' = [discoverCalls EXCEPT ![d] = @ + 1]
       /\ UNCHANGED connectCalls

\* BluetoothTransport.open(descriptor): open(deviceOrId, true)
OpenCall(o, d) ==
  /\ opc[o] = "idle"
  /\ \A p \in Opens : p < o => opc[p] # "idle"
  /\ EnterOpen(o, d)
  /\ odev' = [odev EXCEPT ![o] = d]
  /\ oneeds' = [oneeds EXCEPT ![o] = TRUE]
  /\ oruns' = [oruns EXCEPT ![o] = 1]
  /\ lastOp' = OtherOp
  /\ UNCHANGED extVars
  /\ UNCHANGED <<transportsCache, devState, listeners, sessDisconnects, sessVars,
                 lockVars, writeLog, registered, otransport, oerr, ofirst, callVars,
                 closeVars, devHist>>

\* device.connect callback without error, then discoverServices is issued
ConnectDone(o) ==
  /\ opc[o] = "connect"
  /\ ~Settling
  /\ devState' = [devState EXCEPT ![odev[o]] = "connected"]
  /\ opc' = [opc EXCEPT ![o] = "discover"]
  /\ discoverCalls' = [discoverCalls EXCEPT ![odev[o]] = @ + 1]
  /\ lastOp' = OtherOp
  /\ UNCHANGED extVars
  /\ UNCHANGED <<transportsCache, listeners, connectCalls, sessDisconnects,
                 sessVars, lockVars, writeLog, registered, odev, oneeds, otransport,
                 oerr, oruns, ofirst, callVars, closeVars, devHist>>

\* device.connect callback with an error: reject(new Error(error))
ConnectFail(o) ==
  /\ opc[o] = "connect"
  /\ ~Settling
  /\ opc' = [opc EXCEPT ![o] = "failed"]
  /\ oerr' = [oerr EXCEPT ![o] = "Error"]
  /\ lastOp' = OtherOp
  /\ UNCHANGED extVars
  /\ UNCHANGED <<transportsCache, linkVars, sessVars, lockVars, writeLog, registered,
                 odev, oneeds, otransport, oruns, ofirst, callVars, closeVars,
                 devHist>>

\* discoverCharacteristics callback with an error
DiscoverFail(o) ==
  /\ opc[o] = "discover"
  /\ ~Settling
  /\ opc' = [opc EXCEPT ![o] = "failed"]
  /\ oerr' = [oerr EXCEPT ![o] = "Error"]
  /\ lastOp' = OtherOp
  /\ UNCHANGED extVars
  /\ UNCHANGED <<transportsCache, linkVars, sessVars, lockVars, writeLog, registered,
                 odev, oneeds, otransport, oruns, ofirst, callVars, closeVars,
                 devHist>>

\* Discovery succeeded: subscribe, new BluetoothTransport(device, writeC,
\* notifyObservable, deviceModel), the device.state check, registration,
\* addListener and the synchronous start of inferMTU (lock, write of the
\* 0x08 request).  Evaluating the undeclared identifier deviceModel throws
\* a ReferenceError before the constructor is entered.
DiscoverDone(o, dm, once) ==
  /\ opc[o] = "discover"
  /\ ~Settling
  /\ nextSession \in Sessions
  /\ env.deviceModel \in {"unset", dm}
  /\ LET s == nextSession
         d == odev[o]
     IN IF dm = "unbound"
        THEN /\ opc' = [opc EXCEPT ![o] = "failed"]
             /\ oerr' = [oerr EXCEPT ![o] = "ReferenceError"]
             /\ env' = [env EXCEPT !.deviceModel = dm]
             /\ UNCHANGED <<nextSession, sid, transportsCache, listeners, busy,
                            arrivals, started, writeLog, registered,
                            otransport, devHist>>
        ELSE /\ nextSession' = s + 1
             /\ sid' = [sid EXCEPT ![s] = d]
             /\ IF DeviceGone(devState[d])
                THEN /\ opc' = [opc EXCEPT ![o] = "failed"]
                     /\ oerr' = [oerr EXCEPT ![o] = "DisconnectedDevice"]
                     /\ env' = [env EXCEPT !.deviceModel = dm]
                     /\ UNCHANGED <<transportsCache, listeners, busy, arrivals,
                                    started, writeLog, registered, otransport,
                                    devHist>>
                ELSE /\ env.once \in {"unset", once}
                     /\ env' = [env EXCEPT !.deviceModel = dm, !.once = once]
                     /\ transportsCache' = RegisterTransport(transportsCache, d, s)
                     /\ registered' = [registered EXCEPT ![s] = TRUE]
                     /\ listeners' = [listeners EXCEPT ![d] = AddListener(@, s)]
                     /\ busy' = [busy EXCEPT ![s] = InferMTUAcquire(@, MtuCaller)]
                     /\ arrivals' = [arrivals EXCEPT ![s] = Append(@, MtuCaller)]
                     /\ started' = [started EXCEPT ![s] = Append(@, MtuCaller)]
                     /\ writeLog' = [writeLog EXCEPT ![s] =
                                       WriteFrame(@, MtuCaller, 0, once)]
                     /\ otransport' = [otransport EXCEPT ![o] = s]
                     /\ opc' = [opc EXCEPT ![o] = "mtu"]
                     /\ devHist' = [devHist EXCEPT ![d] =
                                      IF @ = "opened" THEN @ ELSE "registered"]
                     /\ UNCHANGED oerr
  /\ lastOp' = OtherOp
  /\ UNCHANGED restVars
  /\ UNCHANGED <<devState, connectCalls, discoverCalls, sessDisconnects,
                 notYetDisconnected, mtuSize, peerAnnounced, notifyErr, teardowns,
                 odev, oneeds, oruns, ofirst, callVars, closeVars>>

\* The callback of discoverCharacteristics (or of discoverServices) throws:
\* characteristics[0] is not the notify characteristic, so
\* characteristics.resolve() is called, or discoverServices reported an
\* error, so services[0] is read on undefined.  The promise of
\* retrieveService is neither resolved nor rejected: open stays pending.
DiscoverThrows(o) ==
  /\ opc[o] = "discover"
  /\ ~Settling
  /\ opc' = [opc EXCEPT ![o] = "pending"]
  /\ lastOp' = OtherOp
  /\ UNCHANGED extVars
  /\ UNCHANGED <<transportsCache, linkVars, sessVars, lockVars, writeLog, registered,
                 odev, oneeds, otransport, oerr, oruns, ofirst, callVars, closeVars,
                 devHist>>

\* The finally block after inferMTU and what follows it: the round trip
\* decides needsReconnect; with needsReconnect the helper named disconnect
\* only installs a once-listener (it never calls device.disconnect) and the
\* 1000 ms timer is awaited; otherwise the call throws or returns transport.
Finally(o, rtt, err) ==
  LET needs == NeedsReconnectAfter(oneeds[o], rtt)
  IN /\ oneeds' = [oneeds EXCEPT ![o] = needs]
     /\ oerr' = [oerr EXCEPT ![o] = err]
     /\ ofirst' = [ofirst EXCEPT ![o] =
                     IF oruns[o] = 1 THEN [rtt |-> rtt, ok |-> (err = "none")]
                     ELSE @]
     /\ IF needs
        THEN /\ opc' = [opc EXCEPT ![o] = "settle"]
             /\ UNCHANGED devHist
        ELSE IF err # "none"
        THEN /\ opc' = [opc EXCEPT ![o] = "failed"]
             /\ UNCHANGED devHist
        ELSE /\ opc' = [opc EXCEPT ![o] = "done"]
             /\ devHist' = [devHist EXCEPT ![odev[o]] = "opened"]

\* The peer answers the 0x08 request with a 0x08 frame announcing A: the
\* body of inferMTU ends and the lock is released.
MtuResponse(o, A) ==
  /\ opc[o] = "mtu"
  /\ ~Settling
  /\ notifyErr[otransport[o]] = "none"
  /\ peerAnnounced' = [peerAnnounced EXCEPT ![otransport[o]] = <<A>>]
  /\ busy' = [busy EXCEPT ![otransport[o]] = LockRelease(@, MtuCaller)]
  /\ opc' = [opc EXCEPT ![o] = "mturet"]
  /\ lastOp' = OtherOp
  /\ UNCHANGED extVars
  /\ UNCHANGED <<transportsCache, linkVars, nextSession, sid, notYetDisconnected,
                 mtuSize, notifyErr, teardowns, arrivals, started, writeLog,
                 registered, odev, oneeds, otransport, oerr, oruns, ofirst,
                 callVars, closeVars, devHist>>

\* catch (e) of inferMTU: this.device.disconnect((error) => throw new
\* Error(error)); throw e.  The body ends and the lock is released.
MtuCatch(o, err, cb) ==
  /\ env.callback \in {"unset", cb}
  /\ env' = [env EXCEPT !.callback = cb]
  /\ sessDisconnects' = [sessDisconnects EXCEPT ![otransport[o]] = @ + 1]
  /\ devState' = [devState EXCEPT ![odev[o]] = LinkDisconnect(@)]
  /\ listeners' = [listeners EXCEPT ![odev[o]] = CallbackInstalled(@, cb)]
  /\ busy' = [busy EXCEPT ![otransport[o]] = LockRelease(@, MtuCaller)]
  /\ oerr' = [oerr EXCEPT ![o] = IF CallbackThrows(cb) THEN "Error" ELSE err]
  /\ opc' = [opc EXCEPT ![o] = "mturet"]
  /\ lastOp' = OtherOp
  /\ UNCHANGED restVars
  /\ UNCHANGED <<transportsCache, connectCalls, discoverCalls, sessVars, arrivals,
                 started, writeLog, registered, odev, oneeds, otransport, oruns,
                 ofirst, callVars, closeVars, devHist>>

\* The notification stream of the negotiating Session has failed.
MtuAbort(o, cb) ==
  /\ opc[o] = "mtu"
  /\ notifyErr[otransport[o]] # "none"
  /\ MtuCatch(o, notifyErr[otransport[o]], cb)

\* The negotiation fails on its own (write failure, unreadable 0x08 frame).
MtuError(o, cb) ==
  /\ opc[o] = "mtu"
  /\ ~Settling
  /\ notifyErr[otransport[o]] = "none"
  /\ MtuCatch(o, "Error", cb)

\* inferMTU continues after its body: if (mtu > 23) this.mtuSize = mtu - 3,
\* or the exception of the body leaves it; then the finally block of open.
MtuReturn(o, rtt) ==
  /\ opc[o] = "mturet"
  /\ mtuSize' = [mtuSize EXCEPT ![otransport[o]] =
                   IF oerr[o] = "none"
                   THEN NegotiatedMtuSize(@, peerAnnounced[otransport[o]][1])
                   ELSE @]
  /\ Finally(o, rtt, oerr[o])
  /\ lastOp' = OtherOp
  /\ UNCHANGED extVars
  /\ UNCHANGED <<transportsCache, linkVars, nextSession, sid, notYetDisconnected,
                 peerAnnounced, notifyErr, teardowns, lockVars, writeLog,
                 registered, odev, otransport, oruns, callVars, closeVars>>

\* The 1000 ms timer has fired: the pending exception leaves open, or
\* open(device, false) is entered.
SettleDone(o) ==
  /\ opc[o] = "settle"
  /\ ~Settling
  /\ IF oerr[o] # "none"
     THEN /\ opc' = [opc EXCEPT ![o] = "failed"]
          /\ UNCHANGED <<connectCalls, discoverCalls, oneeds, oruns>>
     ELSE /\ EnterOpen(o, odev[o])
          /\ oneeds' = [oneeds EXCEPT ![o] = FALSE]
          /\ oruns' = [oruns EXCEPT ![o] = @ + 1]
  /\ lastOp' = OtherOp
  /\ UNCHANGED extVars
  /\ UNCHANGED <<transportsCache, devState, listeners, sessDisconnects, sessVars,
                 lockVars, writeLog, registered, odev, otransport, oerr, ofirst,
                 callVars, closeVars, devHist>>

\* ------------------------------------------------------------- open(id)
OpenById(d) ==
  /\ LET r == OpenByIdResult(transportsCache, d)
     IN /\ lastOp' = [op |-> "openById", dev |-> d, sess |-> r.sess, err |-> r.err]
  /\ UNCHANGED <<transportsCache, linkVars, sessVars, lockVars, writeLog,
                 registered, openVars, callVars, closeVars, devHist, extVars>>

\* The peripheral emits "disconnect": device.state is "disconnected", the
\* installed listeners run in order up to the first that throws, and the
\* notification streams of the device's Sessions fail.
DisconnectEvent(d) ==
  /\ devState[d] \in {"connected", "disconnecting"}
  /\ ~Settling
  /\ devState' = [devState EXCEPT ![d] = "disconnected"]
  /\ transportsCache' = IF HandlersRun(listeners[d]) = {} THEN transportsCache
                        ELSE OnDisconnectCache(transportsCache, d)
  /\ notYetDisconnected' = [s \in Sessions |->
                              IF s \in HandlersRun(listeners[d])
                              THEN OnDisconnectFlag(notYetDisconnected[s])
                              ELSE notYetDisconnected[s]]
  /\ teardowns' = [s \in Sessions |->
                     IF s \in HandlersRun(listeners[d]) THEN teardowns[s] + 1
                     ELSE teardowns[s]]
  /\ listeners' = [listeners EXCEPT ![d] = ListenersAfterEmit(@)]
  /\ notifyErr' = [s \in Sessions |->
                     IF sid[s] = d THEN MonitorOnDisconnect(notifyErr[s])
                     ELSE notifyErr[s]]
  /\ cdisc' = [c \in Calls |->
                 IF cstate[c] = "running" /\ sid[csess[c]] = d THEN TRUE
                 ELSE cdisc[c]]
  /\ devHist' = [devHist EXCEPT ![d] = "disconnected"]
  /\ lastOp' = OtherOp
  /\ UNCHANGED extVars
  /\ UNCHANGED <<connectCalls, discoverCalls, sessDisconnects, nextSession, sid,
                 mtuSize, peerAnnounced, lockVars, writeLog, registered, openVars,
                 cstate, csess, clen, csent, cerr, cmtu, closeVars>>

\* BluetoothTransport.disconnect(id): if (transport)
\* transport.device.disconnect((error) => throw new Error(error))
DisconnectById(d, cb) ==
  /\ PendingCallbacks(listeners[d]) < MaxCallbacks
  /\ LET target == DisconnectTarget(transportsCache, d)
     IN IF target # 0
        THEN /\ env.callback \in {"unset", cb}
             /\ env' = [env EXCEPT !.callback = cb]
             /\ devState' = [devState EXCEPT ![sid[target]] = LinkDisconnect(@)]
             /\ listeners' = [listeners EXCEPT ![sid[target]] =
                                CallbackInstalled(@, cb)]
             /\ lastOp' = [op |-> "disconnectById", dev |-> d, sess |-> target,
                           err |-> IF CallbackThrows(cb) THEN "Error" ELSE "none"]
        ELSE /\ lastOp' = [op |-> "disconnectById", dev |-> d, sess |-> target,
                           err |-> "none"]
             /\ UNCHANGED <<env, devState, listeners>>
  /\ UNCHANGED <<transportsCache, connectCalls, discoverCalls, sessDisconnects,
                 sessVars, lockVars, writeLog, registered, openVars, callVars,
                 closeVars, devHist, restVars>>

\* --------------------------------------------------------------- listen
\* BluetoothTransport.listen(observer): the discover listener is installed
\* and scanning starts with duplicates allowed.
Listen ==
  /\ lsub = "idle"
  /\ lsub' = "listening"
  /\ discoveredDevices' = {}
  /\ lastOp' = OtherOp
  /\ UNCHANGED <<env, userVars>>
  /\ UNCHANGED <<transportsCache, linkVars, sessVars, lockVars, writeLog,
                 registered, openVars, callVars, closeVars, devHist, acked,
                 adds, addNames, fragVars>>

\* detectingDevices(peripheral) runs for a discover event: while the
\* listener is installed, and for an event whose emit was under way when
\* unsubscribe removed the listener.
Discover(p, n) ==
  /\ lsub \in {"listening", "unsubscribed"}
  /\ IF NameAccepted(n) /\ ~AlreadyDiscovered(discoveredDevices, p)
     THEN /\ discoveredDevices' = discoveredDevices \cup {p}
          /\ IF ObserverNotified(lsub)
             THEN /\ adds' = [adds EXCEPT ![p] = @ + 1]
                  /\ addNames' = addNames \cup {n}
             ELSE UNCHANGED <<adds, addNames>>
     ELSE UNCHANGED <<discoveredDevices, adds, addNames>>
  /\ lastOp' = OtherOp
  /\ UNCHANGED <<env, userVars>>
  /\ UNCHANGED <<transportsCache, linkVars, sessVars, lockVars, writeLog,
                 registered, openVars, callVars, closeVars, devHist, acked,
                 lsub, fragVars>>

\* unsubscribe(): removeListener("discover", ...); unsubscribed = true
Unsubscribe ==
  /\ lsub = "listening"
  /\ lsub' = "unsubscribed"
  /\ lastOp' = [op |-> "unsubscribe", dev |-> "none", sess |-> 0, err |-> "none"]
  /\ UNCHANGED <<env, userVars>>
  /\ UNCHANGED <<transportsCache, linkVars, sessVars, lockVars, writeLog,
                 registered, openVars, callVars, closeVars, devHist, acked,
                 discoveredDevices, adds, addNames, fragVars>>

\* --------------------------------------------------------- fragmentation
\* exchange hands apdu and this.mtuSize to sendAPDU
FragCall(B, L, k) ==
  /\ fragPc = "idle"
  /\ fragPc' = "called"
  /\ fragB' = B
  /\ fragMsg' = MsgOf(L, k)
  /\ lastOp' = OtherOp
  /\ UNCHANGED <<env, userVars>>
  /\ UNCHANGED <<transportsCache, linkVars, sessVars, lockVars, writeLog,
                 registered, openVars, callVars, closeVars, devHist, acked,
                 listenVars, fragFrames, fragOut>>

\* sendAPDU writes the frames of the message
FragSend ==
  /\ fragPc = "called"
  /\ fragPc' = "sent"
  /\ fragFrames' = Fragment(fragMsg, fragB)
  /\ lastOp' = OtherOp
  /\ UNCHANGED <<env, userVars>>
  /\ UNCHANGED <<transportsCache, linkVars, sessVars, lockVars, writeLog,
                 registered, openVars, callVars, closeVars, devHist, acked,
                 listenVars, fragB, fragMsg, fragOut>>

\* receiveAPDU is fed the frames in order
FragReceive ==
  /\ fragPc = "sent"
  /\ fragPc' = "received"
  /\ fragOut' = Reassemble(fragFrames)
  /\ lastOp' = OtherOp
  /\ UNCHANGED <<env, userVars>>
  /\ UNCHANGED <<transportsCache, linkVars, sessVars, lockVars, writeLog,
                 registered, openVars, callVars, closeVars, devHist, acked,
                 listenVars, fragB, fragMsg, fragFrames>>

\* ------------------------------------------------------------- exchange
\* exchange(apdu) on a Session the caller can hold (open(id) returns any
\* registered Session): the call asks for the lock.
ExchangeCall(c, s, len) ==
  /\ cstate[c] = "idle"
  /\ \A p \in Calls : p < c => cstate[p] # "idle"
  /\ registered[s]
  /\ cstate' = [cstate EXCEPT ![c] = "queued"]
  /\ csess' = [csess EXCEPT ![c] = s]
  /\ clen' = [clen EXCEPT ![c] = len]
  /\ busy' = [busy EXCEPT ![s] = LockAcquire(@, c)]
  /\ arrivals' = [arrivals EXCEPT ![s] = Append(@, c)]
  /\ lastOp' = OtherOp
  /\ UNCHANGED extVars
  /\ UNCHANGED <<transportsCache, linkVars, sessVars, started, writeLog, registered,
                 openVars, csent, cerr, cdisc, cmtu, closeVars, devHist>>

\* The body of exchange starts: merge(receiveAPDU, sendAPDU(write, apdu,
\* this.mtuSize)) is subscribed and the first frame is written.  sendAPDU
\* is given the value this.mtuSize has at that moment.
ExchangeStart(c) ==
  /\ cstate[c] = "queued"
  /\ ExchangeBodyGuard(busy[csess[c]], c)
  /\ cstate' = [cstate EXCEPT ![c] = "running"]
  /\ cmtu' = [cmtu EXCEPT ![c] = mtuSize[csess[c]]]
  /\ started' = [started EXCEPT ![csess[c]] = Append(@, c)]
  /\ IF notifyErr[csess[c]] = "none"
     THEN /\ writeLog' = [writeLog EXCEPT ![csess[c]] =
                            WriteFrame(@, c, 0, env.once)]
          /\ csent' = [csent EXCEPT ![c] = 1]
     ELSE UNCHANGED <<writeLog, csent>>
  /\ lastOp' = OtherOp
  /\ UNCHANGED extVars
  /\ UNCHANGED <<transportsCache, linkVars, sessVars, busy, arrivals, registered,
                 openVars, csess, clen, cerr, cdisc, closeVars, devHist>>

\* sendAPDU hands the next frame to write
ExchangeWrite(c) ==
  /\ cstate[c] = "running"
  /\ notifyErr[csess[c]] = "none"
  /\ WriteResolved(Len(writeLog[csess[c]]) - acked[csess[c]])
  /\ csent[c] < NumFrames(clen[c], cmtu[c])
  /\ writeLog' = [writeLog EXCEPT ![csess[c]] =
                    WriteFrame(@, c, csent[c], env.once)]
  /\ csent' = [csent EXCEPT ![c] = @ + 1]
  /\ lastOp' = OtherOp
  /\ UNCHANGED extVars
  /\ UNCHANGED <<transportsCache, linkVars, sessVars, lockVars, registered, openVars,
                 cstate, csess, clen, cerr, cdisc, cmtu, closeVars, devHist>>

\* All frames are written and the response is reassembled: return data
ExchangeDone(c) ==
  /\ cstate[c] = "running"
  /\ ~Settling
  /\ notifyErr[csess[c]] = "none"
  /\ csent[c] = NumFrames(clen[c], cmtu[c])
  /\ cstate' = [cstate EXCEPT ![c] = "ok"]
  /\ busy' = [busy EXCEPT ![csess[c]] = LockRelease(@, c)]
  /\ lastOp' = OtherOp
  /\ UNCHANGED extVars
  /\ UNCHANGED <<transportsCache, linkVars, sessVars, arrivals, started,
                 writeLog, registered, openVars, csess, clen, csent, cerr, cdisc,
                 cmtu, closeVars, devHist>>

\* catch (e) of exchange: if (this.notYetDisconnected)
\* this.device.gatt.disconnect(); throw e.  On a device without a gatt
\* member the catch block itself throws a TypeError and the link is not
\* asked to disconnect.
ExchangeCatch(c, err, gatt) ==
  /\ IF notYetDisconnected[csess[c]]
     THEN /\ env.gatt \in {"unset", gatt}
          /\ env' = [env EXCEPT !.gatt = gatt]
          /\ IF gatt = "absent"
             THEN /\ cerr' = [cerr EXCEPT ![c] = "TypeError"]
                  /\ UNCHANGED <<sessDisconnects, devState>>
             ELSE /\ cerr' = [cerr EXCEPT ![c] = err]
                  /\ sessDisconnects' = [sessDisconnects EXCEPT ![csess[c]] = @ + 1]
                  /\ devState' = [devState EXCEPT ![sid[csess[c]]] =
                                    LinkDisconnect(@)]
     ELSE /\ cerr' = [cerr EXCEPT ![c] = err]
          /\ UNCHANGED <<env, sessDisconnects, devState>>
  /\ cstate' = [cstate EXCEPT ![c] = "failed"]
  /\ busy' = [busy EXCEPT ![csess[c]] = LockRelease(@, c)]
  /\ lastOp' = OtherOp
  /\ UNCHANGED restVars
  /\ UNCHANGED <<transportsCache, listeners, connectCalls, discoverCalls,
                 sessVars, arrivals, started, writeLog, registered, openVars, csess,
                 clen, csent, cdisc, cmtu, closeVars, devHist>>

\* The notification stream of the Session has failed.
ExchangeAbort(c, gatt) ==
  /\ cstate[c] = "running"
  /\ notifyErr[csess[c]] # "none"
  /\ ExchangeCatch(c, notifyErr[csess[c]], gatt)

\* The exchange fails on its own (unexpected frame from the peer).
ExchangeError(c, gatt) ==
  /\ cstate[c] = "running"
  /\ ~Settling
  /\ notifyErr[csess[c]] = "none"
  /\ ExchangeCatch(c, "ProtocolError", gatt)

\* ------------------------------------------------- inferMTU by the user
\* transport.inferMTU() on a Session the caller can hold: the call asks for
\* the lock.  One call is followed.
InferMTUCall(s) ==
  /\ ist = "idle"
  /\ registered[s]
  /\ ist' = "queued"
  /\ isess' = s
  /\ busy' = [busy EXCEPT ![s] = InferMTUAcquire(@, UserMtuCaller)]
  /\ arrivals' = [arrivals EXCEPT ![s] = Append(@, UserMtuCaller)]
  /\ lastOp' = OtherOp
  /\ UNCHANGED <<env, acked, listenVars, fragVars, ierr, uwrites>>
  /\ UNCHANGED <<transportsCache, linkVars, sessVars, started, writeLog, registered,
                 openVars, callVars, closeVars, devHist>>

\* Its body starts: the notification stream is subscribed and the 0x08
\* request is written.
InferMTUStart ==
  /\ ist = "queued"
  /\ LockHolds(busy[isess], UserMtuCaller)
  /\ ist' = "running"
  /\ started' = [started EXCEPT ![isess] = Append(@, UserMtuCaller)]
  /\ writeLog' = IF notifyErr[isess] = "none"
                 THEN [writeLog EXCEPT ![isess] =
                         WriteFrame(@, UserMtuCaller, 0, env.once)]
                 ELSE writeLog
  /\ lastOp' = OtherOp
  /\ UNCHANGED <<env, acked, listenVars, fragVars, isess, ierr, uwrites>>
  /\ UNCHANGED <<transportsCache, linkVars, sessVars, busy, arrivals, registered,
                 openVars, callVars, closeVars, devHist>>

\* The peer answers with a 0x08 frame announcing A: the body ends and the
\* lock is released.
InferMTUResponse(A) ==
  /\ ist = "running"
  /\ ~Settling
  /\ notifyErr[isess] = "none"
  /\ peerAnnounced' = [peerAnnounced EXCEPT ![isess] = <<A>>]
  /\ busy' = [busy EXCEPT ![isess] = LockRelease(@, UserMtuCaller)]
  /\ ist' = "ret"
  /\ lastOp' = OtherOp
  /\ UNCHANGED <<env, acked, listenVars, fragVars, isess, ierr, uwrites>>
  /\ UNCHANGED <<transportsCache, linkVars, nextSession, sid, notYetDisconnected,
                 mtuSize, notifyErr, teardowns, arrivals, started, writeLog,
                 registered, openVars, callVars, closeVars, devHist>>

\* catch (e) of inferMTU: the notification stream of the Session has
\* failed, or the negotiation fails on its own.
InferMTUCatch(err, cb) ==
  /\ ist = "running"
  /\ \/ notifyErr[isess] # "none" /\ err = notifyErr[isess]
     \/ notifyErr[isess] = "none" /\ err = "Error" /\ ~Settling
  /\ env.callback \in {"unset", cb}
  /\ env' = [env EXCEPT !.callback = cb]
  /\ sessDisconnects' = [sessDisconnects EXCEPT ![isess] = @ + 1]
  /\ devState' = [devState EXCEPT ![sid[isess]] = LinkDisconnect(@)]
  /\ listeners' = [listeners EXCEPT ![sid[isess]] = CallbackInstalled(@, cb)]
  /\ busy' = [busy EXCEPT ![isess] = LockRelease(@, UserMtuCaller)]
  /\ ierr' = IF CallbackThrows(cb) THEN "Error" ELSE err
  /\ ist' = "ret"
  /\ lastOp' = OtherOp
  /\ UNCHANGED <<acked, listenVars, fragVars, isess, uwrites>>
  /\ UNCHANGED <<transportsCache, connectCalls, discoverCalls, sessVars, arrivals,
                 started, writeLog, registered, openVars, callVars, closeVars,
                 devHist>>

\* inferMTU continues after its body: if (mtu > 23) this.mtuSize = mtu - 3;
\* return this.mtuSize, or the exception of the body leaves it.
InferMTUReturn ==
  /\ ist = "ret"
  /\ IF ierr = "none"
     THEN /\ mtuSize' = [mtuSize EXCEPT ![isess] =
                           NegotiatedMtuSize(@, peerAnnounced[isess][1])]
          /\ ist' = "ok"
     ELSE /\ ist' = "failed"
          /\ UNCHANGED mtuSize
  /\ lastOp' = OtherOp
  /\ UNCHANGED <<env, acked, listenVars, fragVars, isess, ierr, uwrites>>
  /\ UNCHANGED <<transportsCache, linkVars, nextSession, sid, notYetDisconnected,
                 peerAnnounced, notifyErr, teardowns, lockVars, writeLog,
                 registered, openVars, callVars, closeVars, devHist>>

\* ------------------------------------------------------ write by the user
\* transport.write(frame) on a Session the caller can hold: write is a
\* public member and takes no lock.
UserWrite(s) ==
  /\ registered[s]
  /\ uwrites < MaxUserWrites
  /\ uwrites' = uwrites + 1
  /\ writeLog' = [writeLog EXCEPT ![s] =
                    WriteFrame(@, UserWriteCaller, uwrites, env.once)]
  /\ lastOp' = OtherOp
  /\ UNCHANGED <<env, acked, listenVars, fragVars, ist, isess, ierr>>
  /\ UNCHANGED <<transportsCache, linkVars, sessVars, lockVars, registered,
                 openVars, callVars, closeVars, devHist>>

\* The link stack acknowledges the oldest outstanding write of the Session:
\* writeCharacteristic emits "write".
WriteAck(s) ==
  /\ acked[s] < Len(writeLog[s])
  /\ acked' = [acked EXCEPT ![s] = @ + 1]
  /\ lastOp' = OtherOp
  /\ UNCHANGED <<env, userVars>>
  /\ UNCHANGED <<transportsCache, linkVars, sessVars, lockVars, writeLog,
                 registered, openVars, callVars, closeVars, devHist,
                 listenVars, fragVars>>

\* ---------------------------------------------------------------- close
\* close() is called on a Session the caller can hold: it returns at once
\* when no busy promise is set, otherwise it awaits the busy promise of the
\* caller holding the lock.  close() changes nothing in the program, so one
\* call is followed.
CloseCall(s) ==
  /\ registered[s]
  /\ clstate = "idle"
  /\ clsess' = s
  /\ clinflight' = IF busy[s] # <<>> THEN <<Head(busy[s])>> ELSE <<>>
  /\ clstate' = IF CloseAwaits(busy[s]) THEN "waiting" ELSE "returned"
  /\ lastOp' = OtherOp
  /\ UNCHANGED extVars
  /\ UNCHANGED <<transportsCache, linkVars, sessVars, lockVars, writeLog,
                 registered, openVars, callVars, devHist>>

\* The awaited busy promise has resolved: close() returns.
CloseReturn ==
  /\ clstate = "waiting"
  /\ \A x \in Range(clinflight) : x \notin Range(busy[clsess])
  /\ clstate' = "returned"
  /\ lastOp' = OtherOp
  /\ UNCHANGED extVars
  /\ UNCHANGED <<transportsCache, linkVars, sessVars, lockVars, writeLog,
                 registered, openVars, callVars, clsess, clinflight, devHist>>

\* ----------------------------------------------------------- behaviours
\* errors an inferMTU body can end with besides the announced size
NegotiationErrors == {"Error", "DeviceDisconnected"}

\* the open sequence from the entry of open to its return
OpenSteps(o, rtts, sizes, dms, onces, cbs) ==
  \/ \E d \in Devices : OpenCall(o, d)
  \/ ConnectDone(o)
  \/ \E dm \in dms, once \in onces : DiscoverDone(o, dm, once)
  \/ \E A \in sizes : MtuResponse(o, A)
  \/ \E cb \in cbs : MtuAbort(o, cb)
  \/ \E cb \in cbs : MtuError(o, cb)
  \/ \E rtt \in rtts : MtuReturn(o, rtt)
  \/ SettleDone(o)

\* the failures of connecting and discovering
OpenFailures(o) ==
  \/ ConnectFail(o)
  \/ DiscoverFail(o)
  \/ DiscoverThrows(o)

\* the exchange calls
ExchangeSteps(gatts) ==
  \/ \E c \in Calls, s \in Sessions, len \in ApduLens : ExchangeCall(c, s, len)
  \/ \E c \in Calls : ExchangeStart(c)
  \/ \E c \in Calls : ExchangeWrite(c)
  \/ \E c \in Calls : ExchangeDone(c)
  \/ \E c \in Calls, g \in gatts : ExchangeAbort(c, g)
  \/ \E c \in Calls, g \in gatts : ExchangeError(c, g)

\* the inferMTU() call of the user
InferMTUSteps(sizes, cbs) ==
  \/ \E s \in Sessions : InferMTUCall(s)
  \/ InferMTUStart
  \/ \E A \in sizes : InferMTUResponse(A)
  \/ \E err \in NegotiationErrors, cb \in cbs : InferMTUCatch(err, cb)
  \/ InferMTUReturn

Next ==
  \/ \E o \in Opens :
        OpenSteps(o, RoundTrips, AnnouncedSizes, DeviceModelEnvs, OnceEnvs,
                  CallbackEnvs)
  \/ \E o \in Opens : OpenFailures(o)
  \/ \E d \in Devices : OpenById(d)
  \/ \E d \in Devices : DisconnectEvent(d)
  \/ \E d \in Devices, cb \in CallbackEnvs : DisconnectById(d, cb)
  \/ ExchangeSteps(GattEnvs)
  \/ InferMTUSteps(UserAnnouncedSizes, CallbackEnvs)
  \/ \E s \in Sessions : UserWrite(s)
  \/ \E s \in Sessions : WriteAck(s)
  \/ \E s \in Sessions : CloseCall(s)
  \/ CloseReturn
  \/ \E B \in Budgets : \E L \in FragLens(B), k \in Patterns : FragCall(B, L, k)
  \/ FragSend
  \/ FragReceive
  \/ Listen
  \/ \E p \in ScanIds, n \in LocalNames : Discover(p, n)
  \/ Unsubscribe

Spec == Init /\ [][Next]_vars

\* The registry and the open sequence: every open call, open(id) and the
\* disconnect event, without exchanges.
NextReg ==
  \/ \E o \in Opens :
        OpenSteps(o, RoundTrips, OneAnnouncedSize, DeviceModelEnvs, AcceptingOnce,
                  CallbackEnvs)
  \/ \E o \in Opens : OpenFailures(o)
  \/ \E d \in Devices : OpenById(d)
  \/ \E d \in Devices : DisconnectEvent(d)

SpecReg == Init /\ [][NextReg]_vars

\* The registry and the open sequence with disconnect(id) calls.
NextUser ==
  \/ \E o \in Opens :
        OpenSteps(o, SessRoundTrips, OneAnnouncedSize, DeviceModelEnvs,
                  AcceptingOnce, CallbackEnvs)
  \/ \E o \in Opens : OpenFailures(o)
  \/ \E d \in Devices : OpenById(d)
  \/ \E d \in Devices : DisconnectEvent(d)
  \/ \E d \in Devices, cb \in CallbackEnvs : DisconnectById(d, cb)

SpecUser == Init /\ [][NextUser]_vars

\* One listen subscription next to one open(descriptor) call.
NextListen ==
  \/ OpenSteps(FirstOpen, SessRoundTrips, OneAnnouncedSize, DeviceModelEnvs,
               OnceEnvs, CallbackEnvs)
  \/ \E d \in Devices : DisconnectEvent(d)
  \/ Listen
  \/ \E p \in ScanIds, n \in LocalNames : Discover(p, n)
  \/ Unsubscribe

SpecListen == Init /\ [][NextListen]_vars

\* Fragmentation and reassembly of one message.
NextFrag ==
  \/ \E B \in Budgets : \E L \in FragLens(B), k \in Patterns : FragCall(B, L, k)
  \/ FragSend
  \/ FragReceive

SpecFrag == Init /\ [][NextFrag]_vars

\* The Sessions of one open(descriptor) call (two Sessions when the
\* reconnect workaround is taken), with exchange calls on them.
NextXchg ==
  \/ OpenSteps(FirstOpen, SessRoundTrips, AnnouncedSizes, DeviceModelEnvs,
               OnceEnvs, CallbackEnvs)
  \/ \E d \in Devices : DisconnectEvent(d)
  \/ ExchangeSteps(GattEnvs)

SpecXchg == Init /\ [][NextXchg]_vars

\* Exchange calls and disconnect(id) calls on a peripheral that calls the
\* disconnect callback from its disconnect event.
NextXchgUser ==
  \/ OpenSteps(FirstOpen, SessRoundTrips, SmallAnnouncedSize, BoundDeviceModel,
               AcceptingOnce, NobleCallback)
  \/ \E d \in Devices : DisconnectEvent(d)
  \/ ExchangeSteps(GattEnvs)
  \/ \E d \in Devices, cb \in NobleCallback : DisconnectById(d, cb)

SpecXchgUser == Init /\ [][NextXchgUser]_vars

FairSpecXchgUser ==
  /\ Init /\ [][NextXchgUser]_vars
  /\ \A c \in Calls : WF_vars(\E g \in GattEnvs : ExchangeAbort(c, g))
  /\ WF_vars(\E rtt \in SessRoundTrips : MtuReturn(FirstOpen, rtt))

\* The same on a peripheral whose objects take every call made on them (a
\* bound deviceModel, a characteristic that accepts once("write", false,
\* cb), a disconnect callback called from the disconnect event), with the
\* acknowledgements of the link stack and frames written by the user.
NextWrite ==
  \/ OpenSteps(FirstOpen, SessRoundTrips, SmallAnnouncedSize, BoundDeviceModel,
               AcceptingOnce, NobleCallback)
  \/ \E d \in Devices : DisconnectEvent(d)
  \/ ExchangeSteps(GattEnvs)
  \/ \E s \in Sessions : WriteAck(s)
  \/ \E s \in Sessions : UserWrite(s)

SpecWrite == Init /\ [][NextWrite]_vars

\* The same peripheral, with a close() call.
NextSess ==
  \/ OpenSteps(FirstOpen, SessRoundTrips, SmallAnnouncedSize, BoundDeviceModel,
               AcceptingOnce, NobleCallback)
  \/ \E d \in Devices : DisconnectEvent(d)
  \/ ExchangeSteps(GattEnvs)
  \/ \E s \in Sessions : CloseCall(s)
  \/ CloseReturn

SpecSess == Init /\ [][NextSess]_vars

\* One open(descriptor) call against a peer that may announce any byte,
\* followed by an inferMTU() call of the user.
NextMtu ==
  \/ \E d \in Devices : OpenCall(FirstOpen, d)
  \/ ConnectDone(FirstOpen)
  \/ \E dm \in DeviceModelEnvs, once \in AcceptingOnce :
        DiscoverDone(FirstOpen, dm, once)
  \/ \E A \in Bytes : MtuResponse(FirstOpen, A)
  \/ \E rtt \in FastRoundTrips : MtuReturn(FirstOpen, rtt)
  \/ InferMTUSteps(UserAnnouncedSizes, CallbackEnvs)

SpecMtu == Init /\ [][NextMtu]_vars

\* Steps the program takes by itself once they are enabled: the
\* continuation of a settled promise runs, the settle timer fires, and a
\* failed notification stream rejects the body that is subscribed to it.
\* Link-stack callbacks and peer answers are not under the program's
\* control and carry no fairness.
FairReg ==
  /\ \A o \in Opens : WF_vars(SettleDone(o))
  /\ \A o \in Opens : WF_vars(\E cb \in CallbackEnvs : MtuAbort(o, cb))
  /\ \A o \in Opens : WF_vars(\E rtt \in RoundTrips : MtuReturn(o, rtt))

FairSpecReg == Init /\ [][NextReg]_vars /\ FairReg

FairXchg ==
  /\ \A c \in Calls : WF_vars(\E g \in GattEnvs : ExchangeAbort(c, g))
  /\ WF_vars(\E rtt \in SessRoundTrips : MtuReturn(FirstOpen, rtt))

FairSpecXchg == Init /\ [][NextXchg]_vars /\ FairXchg

TypeOK ==
  /\ transportsCache \in [Devices -> 0..(2 * MaxOpens)]
  /\ devState \in [Devices -> {"disconnected", "connected", "disconnecting"}]
  /\ \A d \in Devices : Range(listeners[d]) \subseteq Sessions \cup {CallbackEntry}
  /\ nextSession \in 1..(2 * MaxOpens + 1)
  /\ sid \in [Sessions -> Devices \cup {"none"}]
  /\ notYetDisconnected \in [Sessions -> BOOLEAN]
  /\ \A s \in Sessions : mtuSize[s] \in Bytes
  /\ opc \in [Opens -> {"idle", "connect", "discover", "pending", "mtu", "mturet",
                        "settle", "done", "failed"}]
  /\ ist \in {"idle", "queued", "running", "ret", "ok", "failed"}
  /\ env.deviceModel \in DeviceModelEnvs \cup {"unset"}
  /\ env.once \in OnceEnvs \cup {"unset"}
  /\ env.gatt \in GattEnvs \cup {"unset"}
  /\ env.callback \in CallbackEnvs \cup {"unset"}
  /\ cstate \in [Calls -> {"idle", "queued", "running", "ok", "failed"}]
  /\ clstate \in {"idle", "waiting", "returned"}
  /\ \A o \in Opens : oruns[o] \in 0..2


\* ================================================================= claims
Alive(d) == {s \in Sessions : registered[s] /\ sid[s] = d /\ notYetDisconnected[s]}

\* C1: after open(descriptor) has succeeded for D and no disconnect event
\* for D has been delivered since, open("D") returns the Session registered
\* for D (a live Session of D), and an open(id) step performs no link-stack
\* operation: no connect, no discovery, no write, no disconnect.
C1_OpenByIdReturnsRegistered ==
  [][lastOp'.op = "openById" =>
       /\ UNCHANGED <<linkVars, writeLog, opc, transportsCache>>
       /\ devHist[lastOp'.dev] = "opened" =>
            /\ lastOp'.err = "none"
            /\ lastOp'.sess # 0
            /\ lastOp'.sess = transportsCache[lastOp'.dev]
            /\ lastOp'.sess \in Alive(lastOp'.dev)]_vars

C1_Witness ==
  /\ lastOp.op = "openById"
  /\ devHist[lastOp.dev] = "opened"
  /\ lastOp.sess # 0
  /\ \E o \in Opens : opc[o] = "done" /\ otransport[o] = lastOp.sess

\* C2 (as claimed): after a disconnect event has been delivered for D and before a new
\* Session is registered for D, open("D") fails with DisconnectedDevice:
\* the Registry holds no entry for D.
C2_OpenByIdAfterDisconnectFails ==
  \A d \in Devices :
    devHist[d] = "disconnected" =>
      /\ transportsCache[d] = 0
      /\ (lastOp.op = "openById" /\ lastOp.dev = d) =>
           (lastOp.err = "DisconnectedDevice" /\ lastOp.sess = 0)

\* C3 (as claimed): for every device identifier at most one Session that
\* was registered is alive (notYetDisconnected).
C3_AtMostOneAliveSession == \A d \in Devices : Cardinality(Alive(d)) <= 1


\* Callers whose body is running on Session s: the negotiation of the open
\* call that constructed s, the exchange calls past their start, and the
\* inferMTU() call of the user.
Running(s) ==
  {c \in Calls : cstate[c] = "running" /\ csess[c] = s}
    \cup (IF \E o \in Opens : opc[o] = "mtu" /\ otransport[o] = s
          THEN {MtuCaller} ELSE {})
    \cup (IF ist = "running" /\ isess = s THEN {UserMtuCaller} ELSE {})

IsPrefix(p, q) == Len(p) <= Len(q) /\ \A i \in 1..Len(p) : p[i] = q[i]

\* C4: on one Session at most one body (exchange or negotiation) runs at a
\* time; a call that arrives while another runs waits (it is never failed
\* without having run), and bodies start in the order the calls arrived.
C4_OneAtATimeFifo ==
  \A s \in Sessions :
    /\ Cardinality(Running(s)) <= 1
    /\ IsPrefix(started[s], arrivals[s])
    /\ \A c \in Calls :
         (csess[c] = s /\ cstate[c] # "idle") =>
           /\ c \in Range(arrivals[s])
           /\ cstate[c] \in {"running", "ok", "failed"} <=> c \in Range(started[s])

C4_Witness ==
  \E c1, c2 \in Calls :
    /\ c1 # c2
    /\ csess[c1] = csess[c2]
    /\ cstate[c1] = "running"
    /\ cstate[c2] = "queued"

\* C5: the frames written on a Session by the calls that take the lock are
\* grouped by call: no frame of another call lies between two frames of
\* one call.
C5_NoInterleaving ==
  \A s \in Sessions :
    \A i, j, k \in 1..Len(writeLog[s]) :
      (i < j /\ j < k /\ writeLog[s][i][1] = writeLog[s][k][1]
         /\ writeLog[s][i][1] # UserWriteCaller
         /\ writeLog[s][j][1] # UserWriteCaller) =>
        writeLog[s][j][1] = writeLog[s][i][1]

C5_Witness ==
  \E s \in Sessions, c1, c2 \in Calls :
    /\ c1 # c2
    /\ Cardinality({i \in 1..Len(writeLog[s]) : writeLog[s][i][1] = c1}) >= 2
    /\ Cardinality({i \in 1..Len(writeLog[s]) : writeLog[s][i][1] = c2}) >= 2


Max(a, b) == IF a >= b THEN a ELSE b

\* C6 (as claimed): when a negotiation in which the peer announced A
\* returns successfully, the packet budget is max(20, A - 3).
C6_BudgetIsAnnouncedMinusThree ==
  [][\A o \in Opens :
       (opc[o] = "mturet" /\ opc'[o] # "mturet" /\ oerr[o] = "none") =>
         mtuSize'[otransport[o]] =
           Max(DefaultMtuSize, peerAnnounced[otransport[o]][1] - 3)]_vars

\* C6 (amended): when a negotiation in which the peer announced A returns
\* successfully, the packet budget is A if A > 20 and otherwise the value
\* it had before the negotiation, which is the default 20 for the
\* negotiation run by open; the budget is never below 20.
C6_BudgetIsAnnounced ==
  [][/\ \A o \in Opens :
          (opc[o] = "mturet" /\ opc'[o] # "mturet" /\ oerr[o] = "none") =>
            /\ mtuSize[otransport[o]] = DefaultMtuSize
            /\ mtuSize'[otransport[o]] =
                 Max(DefaultMtuSize, peerAnnounced[otransport[o]][1])
     /\ (ist = "ret" /\ ist' = "ok") =>
          mtuSize'[isess] =
            IF peerAnnounced[isess][1] > DefaultMtuSize
            THEN peerAnnounced[isess][1] ELSE mtuSize[isess]
     /\ \A s \in Sessions : mtuSize'[s] >= DefaultMtuSize]_vars

C6_Witness ==
  /\ ist = "ok"
  /\ peerAnnounced[isess] = <<20>>
  /\ mtuSize[isess] = 158
  /\ \E o \in Opens : otransport[o] = isess /\ opc[o] = "done"

\* C7 (as claimed): an open call that waits for the peer's answer to the
\* MTU request does not wait forever.
C7_NegotiationEnds ==
  \A o \in Opens : (opc[o] = "mtu") ~> (opc[o] # "mtu")

\* C8 (as claimed): a call whose first negotiation succeeded has run the
\* open sequence twice when the round trip exceeded 500 ms and once when it
\* did not (500 ms included); never more than twice.
C8_TwiceOnlyAbove500 ==
  \A o \in Opens :
    /\ oruns[o] <= 2
    /\ (opc[o] \in {"done", "failed"} /\ ofirst[o].ok) =>
         /\ ofirst[o].rtt > ReconnectThreshold => oruns[o] = 2
         /\ ofirst[o].rtt <= ReconnectThreshold => oruns[o] = 1

\* C8 (amended): the open sequence is run twice exactly when the first
\* negotiation succeeded with a round trip of at least 500 ms, once when the
\* round trip was below 500 ms or the first negotiation failed; never more
\* than twice.
C8_TwiceFrom500 ==
  \A o \in Opens :
    /\ oruns[o] <= 2
    /\ (ofirst[o].rtt > 0 /\ (~ofirst[o].ok \/ ofirst[o].rtt < ReconnectThreshold)) =>
         oruns[o] = 1
    /\ (opc[o] \in {"done", "failed"} /\ ofirst[o].ok
          /\ ofirst[o].rtt >= ReconnectThreshold) => oruns[o] = 2

C8_Witness ==
  \E o \in Opens :
    opc[o] = "done" /\ oruns[o] = 2 /\ ofirst[o].rtt = ReconnectThreshold

\* C9: an exchange during which the disconnect event is delivered fails with
\* DeviceDisconnected (it does not return a response and does not stay
\* pending); a Session's teardown runs at most once, and a Registry entry
\* is removed only in the step in which the handler of the Session it holds
\* runs.
C9_DisconnectDuringExchange ==
  /\ [](\A c \in Calls :
          cdisc[c] => /\ cstate[c] \in {"running", "failed"}
                      /\ cstate[c] = "failed" => cerr[c] = "DeviceDisconnected")
  /\ [](\A s \in Sessions : teardowns[s] <= 1)
  /\ [][\A d \in Devices :
          (transportsCache[d] # 0 /\ transportsCache'[d] = 0) =>
            /\ teardowns[transportsCache[d]] = 0
            /\ teardowns'[transportsCache[d]] = 1]_vars
  /\ \A c \in Calls : cdisc[c] ~> (cstate[c] = "failed")

C9_Witness ==
  \E c \in Calls :
    /\ cdisc[c]
    /\ cstate[c] = "failed"
    /\ cerr[c] = "DeviceDisconnected"
    /\ teardowns[csess[c]] = 1
    /\ transportsCache[sid[csess[c]]] \notin {0, csess[c]}

\* C10: close() has returned only if the caller that was running on the
\* Session when close was called has finished, and no step of close()
\* touches the link, the Registry or the Session.
C10_CloseWaitsAndLeavesLink ==
  /\ [](clstate = "returned" =>
          \A x \in Range(clinflight) : x \notin Range(busy[clsess]))
  /\ [][clstate' # clstate =>
          UNCHANGED <<linkVars, transportsCache, sessVars, writeLog>>]_vars

C10_Witness ==
  /\ clstate = "returned"
  /\ clinflight # <<>>
  /\ clinflight[1] \in Calls
  /\ cstate[clinflight[1]] = "ok"

\* C11 (as claimed): disconnect(id) for an id with a registered Session
\* invokes the link's disconnect (the connected device goes to
\* "disconnecting") and leaves the Registry and the Sessions as they are;
\* when the disconnect event that follows the call is delivered, the
\* Registry holds no Session for the device and open(id) fails with
\* DisconnectedDevice; disconnect(id) for an id with no
\* registered Session changes nothing.
C11_DisconnectByIdSeversAndEvicts ==
  [][/\ lastOp'.op = "disconnectById" =>
          /\ UNCHANGED <<transportsCache, connectCalls, discoverCalls,
                         sessDisconnects, sessVars, lockVars, writeLog,
                         registered, openVars, devHist>>
          /\ IF transportsCache[lastOp'.dev] # 0
             THEN /\ lastOp'.sess = transportsCache[lastOp'.dev]
                  /\ devState[lastOp'.dev] = "connected" =>
                       devState'[lastOp'.dev] = "disconnecting"
             ELSE /\ lastOp'.sess = 0
                  /\ UNCHANGED <<devState, listeners>>
     /\ \A d \in Devices :
          (lastOp.op = "disconnectById" /\ lastOp.dev = d /\ lastOp.sess # 0
             /\ devState[d] = "disconnecting" /\ devState'[d] = "disconnected") =>
            /\ transportsCache'[d] = 0
            /\ OpenByIdResult(transportsCache', d).err = "DisconnectedDevice"]_vars

\* C12: for every packet budget B >= 4 and every message of length L in
\* {0, 1, P-1, P, P+1, 3P} (P the payload size under B), the frames of the
\* message carry sequence numbers 0, 1, 2, ..., and reassembling them in
\* order gives back exactly the message, using every frame; L = 0 gives
\* exactly one frame and a length that is a multiple of P gives L / P
\* frames, none of them empty.
C12_FragmentRoundTrip ==
  LET L == Len(fragMsg)
      P == PayloadSize(fragB)
  IN /\ fragPc \in {"sent", "received"} =>
          /\ Len(fragFrames) = NumFrames(L, fragB)
          /\ L = 0 => Len(fragFrames) = 1
          /\ (L > 0 /\ L % P = 0) =>
               /\ Len(fragFrames) = L \div P
               /\ \A i \in 1..Len(fragFrames) : fragFrames[i].payload # <<>>
          /\ \A i \in 1..Len(fragFrames) :
               /\ fragFrames[i].seq = i - 1
               /\ Len(fragFrames[i].payload) <= P
     /\ fragPc = "received" =>
          /\ fragOut.status = "ok"
          /\ fragOut.data = fragMsg
          /\ fragOut.used = Len(fragFrames)

C12_Witness ==
  /\ fragPc = "received"
  /\ fragB = DefaultMtuSize
  /\ Len(fragMsg) = 3 * PayloadSize(fragB)
  /\ Len(fragFrames) = 3
  /\ fragOut.data = fragMsg

\* C13 (as claimed): when the second attempt of open(descriptor) has
\* started, the Session of the first attempt has received its disconnect
\* event (its teardown has run, it is not alive and not in the Registry)
\* and the second attempt has started with a connect of its own.
C13_WorkaroundDisconnectsFirst ==
  \A o \in Opens :
    (oruns[o] = 2 /\ opc[o] \in {"connect", "discover"}) =>
      /\ teardowns[otransport[o]] >= 1
      /\ ~notYetDisconnected[otransport[o]]
      /\ transportsCache[odev[o]] # otransport[o]
      /\ connectCalls[odev[o]] >= 2

\* C14 (as claimed): over the life of a Session the link's disconnect is
\* invoked at most once by its failing negotiation and failing exchanges.
C14_DefensiveDisconnectOnce ==
  \A s \in Sessions : sessDisconnects[s] <= 1

\* C16 (as claimed): once close() has returned on a registered Session,
\* the Session is not in the Registry and is not alive.
C16_CloseDestroysSession ==
  clstate = "returned" =>
    /\ transportsCache[sid[clsess]] # clsess
    /\ ~notYetDisconnected[clsess]

\* C18 (as claimed): open(id) returns only a Session whose negotiation has
\* succeeded and whose open call has returned it: never one whose
\* negotiation is running or has failed, nor one the reconnect workaround
\* is about to replace.
C18_RegisteredAfterNegotiation ==
  (lastOp.op = "openById" /\ lastOp.sess # 0) =>
    /\ peerAnnounced[lastOp.sess] # <<>>
    /\ \A o \in Opens : otransport[o] = lastOp.sess => opc[o] = "done"

\* Frames of exchange call c handed to the write channel of its Session
\* and not yet acknowledged by the link stack.
OutstandingOf(c) ==
  {i \in (acked[csess[c]] + 1)..Len(writeLog[csess[c]]) :
     writeLog[csess[c]][i][1] = c}

\* C15 (as claimed): within one exchange the write of a frame is not
\* started before the write of the frame before it has been acknowledged:
\* a call never has more than one outstanding write.
C15_OneOutstandingWrite ==
  \A c \in Calls : cstate[c] # "idle" => Cardinality(OutstandingOf(c)) <= 1

\* C17: a Session that has received its disconnect event is not alive and
\* not in the Registry after any later step, and every step that puts a
\* Session in the Registry puts there one constructed by that very step.
C17_DisconnectedIsTerminal ==
  [][/\ \A s \in Sessions :
          teardowns'[s] >= 1 =>
            /\ ~notYetDisconnected'[s]
            /\ \A d \in Devices : transportsCache'[d] # s
     /\ \A d \in Devices :
          (transportsCache'[d] # 0 /\ transportsCache'[d] # transportsCache[d]) =>
            /\ sid[transportsCache'[d]] = "none"
            /\ sid'[transportsCache'[d]] = d
            /\ teardowns'[transportsCache'[d]] = 0]_vars

C17_Witness ==
  \E s1, s2 \in Sessions :
    /\ s1 # s2
    /\ sid[s1] = sid[s2]
    /\ teardowns[s1] >= 1
    /\ ~notYetDisconnected[s1]
    /\ transportsCache[sid[s2]] = s2
    /\ notYetDisconnected[s2]

\* C20: every Session in the Registry is stored under its own device id
\* and is alive; the step that clears the
\* flag of a Session also leaves the Registry without an entry for its
\* id; and the step that constructs a Session on a device that is already
\* disconnected does not register it: the open call fails with
\* DisconnectedDevice.
C20_RegistryHoldsAliveSessions ==
  [][/\ \A d \in Devices :
          transportsCache'[d] # 0 =>
            /\ sid'[transportsCache'[d]] = d
            /\ notYetDisconnected'[transportsCache'[d]]
     /\ \A s \in Sessions :
          (notYetDisconnected[s] /\ ~notYetDisconnected'[s]) =>
            transportsCache'[sid[s]] = 0
     /\ \A s \in Sessions :
          (sid[s] = "none" /\ sid'[s] # "none" /\ devState[sid'[s]] = "disconnected") =>
            /\ ~registered'[s]
            /\ transportsCache'[sid'[s]] # s
            /\ \E o \in Opens :
                 /\ opc[o] = "discover"
                 /\ opc'[o] = "failed"
                 /\ oerr'[o] = "DisconnectedDevice"]_vars

C20_Witness ==
  \E o \in Opens, s \in Sessions :
    /\ opc[o] = "failed"
    /\ oerr[o] = "DisconnectedDevice"
    /\ sid[s] = odev[o]
    /\ ~registered[s]
    /\ transportsCache[odev[o]] = 0

\* C19: over any sequence of discover events of one listen subscription,
\* the observer gets at most one add event per peripheral uuid, none for a
\* peripheral whose advertised name is missing, empty or "unknown", and
\* none once unsubscribe has been called; the unsubscribe step leaves the
\* Registry, the link and every Session as they were.
C19_ListenDedupes ==
  [][/\ \A p \in ScanIds : adds'[p] <= 1
     /\ addNames' \cap {"missing", "", "unknown"} = {}
     /\ lsub = "unsubscribed" => UNCHANGED <<adds, addNames>>
     /\ (lsub = "listening" /\ lsub' = "unsubscribed") =>
          UNCHANGED <<transportsCache, linkVars, sessVars, lockVars, writeLog,
                      registered, openVars, callVars, adds, addNames>>]_vars

C19_Witness ==
  /\ lsub = "unsubscribed"
  /\ adds["D1"] = 1
  /\ adds["D2"] = 0
  /\ "D2" \in discoveredDevices
  /\ transportsCache["D1"] # 0
  /\ \E o \in Opens : opc[o] = "done"

====
